---------------------------- MODULE Spec2Model ----------------------------
(***************************************************************************)
(* Model of the tense annotation tool (src/app.py): a Streamlit script     *)
(* whose main() is re-run on every widget interaction of a browser         *)
(* session.  One action of the model is one such run of main(), with the   *)
(* widget that triggered it.                                               *)
(*                                                                         *)
(* Texts are sequences of one-character strings.  A Python Optional list   *)
(* is a record [is_none, items].  An option of the tense select box is the *)
(* sequence of the string pieces it is built from, so that                 *)
(* f"------ {category} ------" is <<"------", category, "------">> and a   *)
(* tense label t is <<t>>; the empty string is <<>>.                       *)
(***************************************************************************)
EXTENDS Integers, Sequences, FiniteSets, TLC

(***************************************************************************)
(* Bounds of the model.                                                    *)
(***************************************************************************)
\* sample sizes offered by the number input are 1..MaxSampleSize
MaxSampleSize == 3
\* split_into_sentences is called on texts of at most MaxTextLen characters
MaxTextLen == 4
\* the annotations table holds at most MaxStore records
MaxStore == 2

(***************************************************************************)
(* Constants of the program.                                               *)
(***************************************************************************)
None == "None"

CEFR_LEVELS == <<"A1", "A2", "B1", "B2", "C1">>

\* the taxonomy, cut to its first category and that category's first label
TENSE_CATEGORIES ==
    << [category |-> "Simple Forms", tenses |-> <<"Present Simple">>] >>

Terminators == {".", "!", "?"}

Whitespace == {" "}

(***************************************************************************)
(* Helpers.                                                                *)
(***************************************************************************)
Min(a, b) == IF a < b THEN a ELSE b

Range(q) == {q[i] : i \in 1..Len(q)}

RECURSIVE Flatten(_)
Flatten(qs) == IF qs = <<>> THEN <<>> ELSE Head(qs) \o Flatten(Tail(qs))

\* str.strip(): leading and trailing whitespace removed
RECURSIVE lstrip(_)
lstrip(s) ==
    IF s = <<>> THEN s
    ELSE IF Head(s) \in Whitespace THEN lstrip(Tail(s)) ELSE s

RECURSIVE rstrip(_)
rstrip(s) ==
    IF s = <<>> THEN s
    ELSE IF s[Len(s)] \in Whitespace THEN rstrip(SubSeq(s, 1, Len(s) - 1))
         ELSE s

strip(s) == rstrip(lstrip(s))

\* the loop without the final "if current:", the text after the last
\* terminator is dropped
RECURSIVE SplitLoop_DropsResidual(_, _, _, _)
SplitLoop_DropsResidual(text, i, current, sentences) ==
    IF i > Len(text)
    THEN sentences
    ELSE LET cur == Append(current, text[i])
         IN  IF text[i] \in Terminators /\ Len(cur) > 0
             THEN SplitLoop_DropsResidual(text, i + 1, <<>>,
                                          Append(sentences, strip(cur)))
             ELSE SplitLoop_DropsResidual(text, i + 1, cur, sentences)

\* the loop testing the character before appending it, so that the
\* terminator is left out of the sentence it closes
RECURSIVE SplitLoop_DropsTerminator(_, _, _, _)
SplitLoop_DropsTerminator(text, i, current, sentences) ==
    IF i > Len(text)
    THEN IF current # <<>> THEN Append(sentences, strip(current))
         ELSE sentences
    ELSE IF text[i] \in Terminators
         THEN SplitLoop_DropsTerminator(text, i + 1, <<>>,
                                        Append(sentences, strip(current)))
         ELSE SplitLoop_DropsTerminator(text, i + 1,
                                        Append(current, text[i]), sentences)

\* the loop of split_into_sentences from character i on
RECURSIVE SplitLoop(_, _, _, _)
SplitLoop(text, i, current, sentences) ==
    IF i > Len(text)
    THEN IF current # <<>> THEN Append(sentences, strip(current))
         ELSE sentences
    ELSE LET cur == Append(current, text[i])
         IN  IF text[i] \in Terminators /\ Len(cur) > 0
             THEN SplitLoop(text, i + 1, <<>>, Append(sentences, strip(cur)))
             ELSE SplitLoop(text, i + 1, cur, sentences)

split_into_sentences(text) == SplitLoop(text, 1, <<>>, <<>>)

\* TENSE_OPTIONS: the flattened labels
TENSE_OPTIONS ==
    Flatten([i \in 1..Len(TENSE_CATEGORIES) |->
                [j \in 1..Len(TENSE_CATEGORIES[i].tenses) |->
                    <<TENSE_CATEGORIES[i].tenses[j]>>]])

\* the options of the "Select Tense" box: "", then per category its
\* header line followed by its labels
tense_options ==
    <<<<>>>> \o
    Flatten([i \in 1..Len(TENSE_CATEGORIES) |->
                <<<<"------", TENSE_CATEGORIES[i].category, "------">>>> \o
                [j \in 1..Len(TENSE_CATEGORIES[i].tenses) |->
                    <<TENSE_CATEGORIES[i].tenses[j]>>]])

\* x.startswith("------")
StartsWithDashes(x) == Len(x) > 0 /\ x[1] = "------"

\* "Skip category headers when processing selection"
SkipHeaders(selected_tense) ==
    IF selected_tense # <<>> /\ StartsWithDashes(selected_tense)
    THEN <<>> ELSE selected_tense

\* ValidTense without its test for the empty selection
ValidTense_EmptyAllowed(selected_tense) == ~StartsWithDashes(selected_tense)

\* the test guarding save_annotation in the form handler
ValidTense(selected_tense) ==
    selected_tense # <<>> /\ ~StartsWithDashes(selected_tense)


(***************************************************************************)
(* The collaborators: identity provider, profile store, corpus file.       *)
(***************************************************************************)
\* the accounts of the identity provider
Users == {"u1", "u2", "u3"}

\* what sign_in_with_password can answer: a user, or an exception
AuthOutcomes == Users \cup {"AuthError"}

\* the profiles table at start; u3 has no row
InitialProfiles == [u \in {"u1", "u2"} |-> IF u = "u1" THEN "annotator" ELSE "admin"]

Row(text, cefr, learner) ==
    [text_corrected |-> text, cefr |-> cefr, learner_id |-> learner]

\* contents of public/sampled_data.csv: a file with the header line only,
\* and a file of three learner texts
Corpora ==
    { <<>>,
      << Row(<<"a", ".", " ", "b", "!">>, "B1", "L1"),
         Row(<<"c", "?">>, "B1", "L2"),
         Row(<<"d">>, "A2", "L3") >> }

\* the notes the annotator may type
Notes == {"", "modal"}

\* browser sessions; each has its own st.session_state
AllSessions == {"s1", "s2"}

VARIABLES
    corpus,         \* rows of public/sampled_data.csv
    profiles,       \* profiles table: user id -> role
    annotations,    \* annotations table: the inserted records, in order
    user,           \* st.session_state.user, per session
    user_role,      \* st.session_state.user_role
    annotator_id,   \* st.session_state.annotator_id (None when absent)
    current_index,  \* st.session_state.current_index
    filtered_data,  \* st.session_state.filtered_data
    last,           \* what the last run of main() did and showed
    seg             \* a call of split_into_sentences: its text and result

vars == <<corpus, profiles, annotations, user, user_role, annotator_id,
          current_index, filtered_data, last, seg>>

NoneList == [is_none |-> TRUE, items |-> <<>>]

List(items) == [is_none |-> FALSE, items |-> items]

\* the test "is not None" in place of the truth value: an empty list passes
Truthy_NotNone(fd) == ~fd.is_none

\* Python truth value of an Optional list
Truthy(fd) == ~fd.is_none /\ Len(fd.items) > 0

NoItem == [text_corrected |-> <<>>, sentence |-> <<>>, sentence_index |-> 0,
           cefr |-> "", learner_id |-> ""]

\* no sample was drawn
NoSample == [ok |-> TRUE, rows |-> <<>>, level |-> "", size |-> 0]

\* the fields of `last` a run leaves at their defaults
LastNone ==
    [session |-> None, op |-> "start", outcome |-> "", shown |-> "none",
     sampled |-> NoSample, lookup |-> "",
     index_before |-> 0, button |-> "", tense |-> <<>>, notes |-> "",
     item |-> NoItem, insert_calls |-> 0, stored_before |-> 0]

(***************************************************************************)
(* Corpus Sampler and Annotation Unit Builder (the Load Data handler).     *)
(***************************************************************************)
\* df[df['cefr'] == cefr_level]
FilterLevel(df, cefr_level) == SelectSeq(df, LAMBDA row : row.cefr = cefr_level)

\* n=min(sample_size, len(df)), df being the whole frame
SampleN(sample_size, df) == Min(sample_size, Len(df))

\* DataFrame.sample(n): n distinct rows in any order; ValueError when the
\* frame holds fewer than n rows
Sample(frame, n) ==
    IF n > Len(frame)
    THEN {[ok |-> FALSE, rows |-> <<>>]}
    ELSE {[ok |-> TRUE, rows |-> [i \in 1..n |-> frame[p[i]]]] :
            p \in {q \in [1..n -> 1..Len(frame)] :
                     \A i, j \in 1..n : i # j => q[i] # q[j]}}

\* df[df['cefr'] == cefr_level].sample(n=min(sample_size, len(df))), with
\* the level and size it was asked for
SampleLevel(df, cefr_level, sample_size) ==
    {[ok |-> r.ok, rows |-> r.rows, level |-> cefr_level, size |-> sample_size] :
        r \in Sample(FilterLevel(df, cefr_level), SampleN(sample_size, df))}

\* RowUnits numbering the sentences from 1
RowUnits_OneBased(row) ==
    LET sentences == split_into_sentences(row.text_corrected)
    IN  [idx \in 1..Len(sentences) |->
            [text_corrected |-> row.text_corrected,
             sentence |-> sentences[idx],
             sentence_index |-> idx,
             cefr |-> row.cefr,
             learner_id |-> row.learner_id]]

\* the units of one row: one per sentence, sentence_index from 0
RowUnits(row) ==
    LET sentences == split_into_sentences(row.text_corrected)
    IN  [idx \in 1..Len(sentences) |->
            [text_corrected |-> row.text_corrected,
             sentence |-> sentences[idx],
             sentence_index |-> idx - 1,
             cefr |-> row.cefr,
             learner_id |-> row.learner_id]]

\* processed_data
Build(rows) == Flatten([i \in 1..Len(rows) |-> RowUnits(rows[i])])

(***************************************************************************)
(* Annotation Persister (save_annotation) and the annotations table.       *)
(***************************************************************************)
\* AnnotationData with learner_id left at the default of the parameter
AnnotationData_DefaultLearner(text, sentence_index, tense, cefr_level, user_id, notes, original_text, learner_id) ==
    [annotator_id |-> user_id,
     sentence |-> text,
     target_tense |-> tense,
     notes |-> notes,
     cefr_level |-> cefr_level,
     original_text |-> original_text,
     learner_id |-> "unknown"]

\* the record save_annotation builds; created_at, the wall clock of the
\* call, is left out of the model
AnnotationData(text, sentence_index, tense, cefr_level, user_id, notes, original_text, learner_id) ==
    [annotator_id |-> user_id,
     sentence |-> text,
     target_tense |-> tense,
     notes |-> notes,
     cefr_level |-> cefr_level,
     original_text |-> original_text,
     learner_id |-> learner_id]

\* Insert as an upsert: a row equal to a stored one is not added again
Insert_Upsert(table, data, insert_ok) ==
    IF insert_ok /\ \A i \in 1..Len(table) : table[i] # data
    THEN Append(table, data) ELSE table

\* supabase.table("annotations").insert(data).execute(): the row is added,
\* or the call raises and the table is as before
Insert(table, data, insert_ok) ==
    IF insert_ok THEN Append(table, data) ELSE table

\* save_annotation inserting a second time when the first insert raised
save_annotation_Retry(table, data, insert_ok) ==
    [saved |-> insert_ok,
     insert_calls |-> IF insert_ok THEN 1 ELSE 2,
     table |-> IF insert_ok THEN Append(table, data) ELSE table]

\* save_annotation: one insert; True when it returned, False when it raised
save_annotation(table, data, insert_ok) ==
    [saved |-> insert_ok,
     insert_calls |-> 1,
     table |-> Insert(table, data, insert_ok)]

(***************************************************************************)
(* Session Navigator: the cursor moves of the form handler.                *)
(***************************************************************************)
\* the Next move without its test against the last index
NextIndex_Unbounded(i, n) == i + 1

\* the Next move wrapping around to the first unit
NextIndex_Wraps(i, n) == IF i < n - 1 THEN i + 1 ELSE 0

\* "if next_button and current_index < len(filtered_data) - 1"
NextIndex(i, n) == IF i < n - 1 THEN i + 1 ELSE i

\* the Previous move wrapping around to the last unit
PrevIndex_Wraps(i, n) == IF i > 0 THEN i - 1 ELSE n - 1

\* "if prev_button and current_index > 0"
PrevIndex(i, n) == IF i > 0 THEN i - 1 ELSE i

\* a load that keeps the cursor of the previous worklist
LoadIndex_Keeps(i) == i

\* st.session_state.current_index = 0 after a load
LoadIndex(i) == 0

\* split_into_sentences has not been called
NoCall == [text |-> <<>>, called |-> FALSE, sentences |-> <<>>]

(***************************************************************************)
(* State after construction: no session has run main() yet; the defaults   *)
(* of "Initialize session state" are what every first run sets.            *)
(***************************************************************************)
Init ==
    /\ corpus \in Corpora
    /\ profiles = InitialProfiles
    /\ annotations = <<>>
    /\ user = [s \in AllSessions |-> None]
    /\ user_role = [s \in AllSessions |-> None]
    /\ annotator_id = [s \in AllSessions |-> None]
    /\ current_index = [s \in AllSessions |-> 0]
    /\ filtered_data = [s \in AllSessions |-> NoneList]
    /\ last = LastNone
    /\ seg = NoCall

(***************************************************************************)
(* login(): a submit of the form of one of the two tabs.                   *)
(***************************************************************************)
\* profiles.select('role').eq('id', id).single(): the role of the row, or
\* not_found (single() raises) when the user has no row or did not sign in
Lookup(table, auth) ==
    IF auth \in Users /\ auth \in DOMAIN table THEN table[auth] ELSE "not_found"

\* the answer of the lookup a login made; none when the sign-in raised
LookupMade(table, auth) == IF auth \in Users THEN Lookup(table, auth) ELSE ""

\* the role test without the comparison: any row found is let in
Granted_AnyRow(role, tab) == role # "not_found"

\* "user_data.data and user_data.data['role'] == 'annotator'" (or 'admin')
Granted(role, tab) == role # "not_found" /\ role = tab

Login(s, tab, auth) ==
    /\ user[s] = None
    /\ LET role == Lookup(profiles, auth)
           granted == Granted(role, tab)
           outcome == IF granted THEN "logged_in"
                      ELSE IF role # "not_found"
                           THEN "no_privileges"
                           ELSE "login_failed"
       IN  /\ user' = IF granted THEN [user EXCEPT ![s] = auth] ELSE user
           /\ user_role' = IF granted THEN [user_role EXCEPT ![s] = tab]
                           ELSE user_role
           /\ annotator_id' = IF granted /\ tab = "annotator"
                              THEN [annotator_id EXCEPT ![s] = auth]
                              ELSE annotator_id
           /\ last' = [LastNone EXCEPT !.session = s, !.op = "login",
                          !.outcome = outcome,
                          !.lookup = LookupMade(profiles, auth),
                          !.shown = IF granted THEN "none" ELSE "error"]
    /\ UNCHANGED <<corpus, profiles, annotations, current_index, filtered_data, seg>>

(***************************************************************************)
(* Logout (sidebar or admin dashboard): sign_out, session_state.clear(),   *)
(* rerun; the rerun sets the defaults again.                               *)
(***************************************************************************)
\* a logout that signs out and drops the user, keeping the other keys
Logout_KeepsWorklist(s) ==
    /\ user[s] # None
    /\ user' = [user EXCEPT ![s] = None]
    /\ user_role' = [user_role EXCEPT ![s] = None]
    /\ annotator_id' = [annotator_id EXCEPT ![s] = None]
    /\ last' = [LastNone EXCEPT !.session = s, !.op = "logout",
                   !.index_before = current_index[s]]
    /\ UNCHANGED <<corpus, profiles, annotations, current_index, filtered_data, seg>>

\* a logout clearing one dictionary shared by all sessions
Logout_ClearsAll(s) ==
    /\ user[s] # None
    /\ user' = [t \in AllSessions |-> None]
    /\ user_role' = [t \in AllSessions |-> None]
    /\ annotator_id' = [t \in AllSessions |-> None]
    /\ current_index' = [t \in AllSessions |-> 0]
    /\ filtered_data' = [t \in AllSessions |-> NoneList]
    /\ last' = [LastNone EXCEPT !.session = s, !.op = "logout",
                   !.index_before = current_index[s]]
    /\ UNCHANGED <<corpus, profiles, annotations, seg>>

Logout(s) ==
    /\ user[s] # None
    /\ user' = [user EXCEPT ![s] = None]
    /\ user_role' = [user_role EXCEPT ![s] = None]
    /\ annotator_id' = [annotator_id EXCEPT ![s] = None]
    /\ current_index' = [current_index EXCEPT ![s] = 0]
    /\ filtered_data' = [filtered_data EXCEPT ![s] = NoneList]
    /\ last' = [LastNone EXCEPT !.session = s, !.op = "logout",
                   !.index_before = current_index[s]]
    /\ UNCHANGED <<corpus, profiles, annotations, seg>>

\* the role read again from the profiles table on every run
RoleOf_Relookup(s) == Lookup(profiles, user[s])

\* st.session_state.user_role, as the routing reads it
RoleOf(s) == user_role[s]

\* the interface main() shows: the login page while no user is set, then
\* the admin dashboard for role admin and the annotator interface otherwise
Route(s) ==
    IF user[s] = None THEN "login"
    ELSE IF RoleOf(s) = "admin" THEN "admin" ELSE "annotator"

\* the annotator interface is the else branch of the role routing
InAnnotatorInterface(s) == Route(s) = "annotator"

(***************************************************************************)
(* The "Load Data" button.                                                 *)
(***************************************************************************)
\* a load handler that empties the worklist and resets the cursor as soon
\* as the button is pressed, before the level is tested and the file read
LoadData_ClearsFirst(s, cefr_level, sample_size, read_ok) ==
    /\ InAnnotatorInterface(s)
    /\ LET base == [LastNone EXCEPT !.session = s, !.op = "load",
                       !.index_before = current_index[s]]
           cleared == /\ filtered_data' = [filtered_data EXCEPT ![s] = NoneList]
                      /\ current_index' = [current_index EXCEPT ![s] = 0]
       IN  IF cefr_level = ""
           THEN /\ last' = [base EXCEPT !.outcome = "no_level",
                                        !.shown = "error"]
                /\ cleared
           ELSE IF ~read_ok
           THEN /\ last' = [base EXCEPT !.outcome = "load_error",
                                        !.shown = "error"]
                /\ cleared
           ELSE \E sampled \in SampleLevel(corpus, cefr_level, sample_size) :
                  IF ~sampled.ok
                  THEN /\ last' = [base EXCEPT !.outcome = "ValueError",
                                               !.shown = "exception",
                                               !.sampled = sampled]
                       /\ cleared
                  ELSE /\ filtered_data' =
                            [filtered_data EXCEPT ![s] = List(Build(sampled.rows))]
                       /\ current_index' =
                            [current_index EXCEPT ![s] = LoadIndex(current_index[s])]
                       /\ last' = [base EXCEPT !.outcome = "loaded",
                                               !.shown = "success",
                                               !.sampled = sampled]
    /\ UNCHANGED <<corpus, profiles, annotations, user, user_role, annotator_id, seg>>

LoadData(s, cefr_level, sample_size, read_ok) ==
    /\ InAnnotatorInterface(s)
    /\ LET base == [LastNone EXCEPT !.session = s, !.op = "load",
                       !.index_before = current_index[s]]
       IN  IF cefr_level = ""
           THEN \* st.error("Please select a CEFR level"); return
                /\ last' = [base EXCEPT !.outcome = "no_level",
                                        !.shown = "error"]
                /\ UNCHANGED <<current_index, filtered_data>>
           ELSE IF ~read_ok
           THEN \* load_data() showed its error and returned None
                /\ last' = [base EXCEPT !.outcome = "load_error",
                                        !.shown = "error"]
                /\ UNCHANGED <<current_index, filtered_data>>
           ELSE \E sampled \in SampleLevel(corpus, cefr_level, sample_size) :
                  IF ~sampled.ok
                  THEN \* ValueError leaves main(); nothing was assigned
                       /\ last' = [base EXCEPT !.outcome = "ValueError",
                                               !.shown = "exception",
                                               !.sampled = sampled]
                       /\ UNCHANGED <<current_index, filtered_data>>
                  ELSE /\ filtered_data' =
                            [filtered_data EXCEPT ![s] = List(Build(sampled.rows))]
                       /\ current_index' =
                            [current_index EXCEPT ![s] = LoadIndex(current_index[s])]
                       /\ last' = [base EXCEPT !.outcome = "loaded",
                                               !.shown = "success",
                                               !.sampled = sampled]
    /\ UNCHANGED <<corpus, profiles, annotations, user, user_role, annotator_id, seg>>

(***************************************************************************)
(* A submit of the annotation form by one of its three buttons.            *)
(***************************************************************************)
Buttons == {"prev", "save", "next"}

\* a list index within the list; Python raises IndexError beyond its end
InRange(i, items) == 0 <= i /\ i < Len(items)

\* the list without its element at index i
Without(items, i) == SubSeq(items, 1, i) \o SubSeq(items, i + 2, Len(items))

\* a form handler with the cursor moves inside the branch taken when
\* save_annotation returned True: no move after a failed insert or an
\* invalid tense
SubmitEffects_MovesOnlyIfSaved(s, button, option, notes, insert_ok) ==
    /\ InAnnotatorInterface(s)
    /\ Truthy(filtered_data[s])
    /\ InRange(current_index[s], filtered_data[s].items)
    /\ LET items == filtered_data[s].items
           current_item == items[current_index[s] + 1]
           selected_tense == SkipHeaders(option)
           base == [LastNone EXCEPT !.session = s, !.op = "submit",
                       !.button = button, !.tense = option,
                       !.item = current_item,
                       !.index_before = current_index[s],
                       !.stored_before = Len(annotations)]
           moved == IF button = "next"
                    THEN NextIndex(current_index[s], Len(items))
                    ELSE IF button = "prev"
                    THEN PrevIndex(current_index[s], Len(items))
                    ELSE current_index[s]
       IN  IF ValidTense(selected_tense)
           THEN /\ Len(annotations) < MaxStore
                /\ LET r == save_annotation(
                              annotations,
                              AnnotationData(current_item.sentence,
                                             current_item.sentence_index,
                                             selected_tense,
                                             current_item.cefr,
                                             annotator_id[s],
                                             notes,
                                             current_item.text_corrected,
                                             current_item.learner_id),
                              insert_ok)
                   IN  /\ annotations' = r.table
                       /\ last' = [base EXCEPT
                                     !.outcome = IF r.saved THEN "saved"
                                                 ELSE "store_error",
                                     !.shown = IF r.saved THEN "success"
                                               ELSE "error",
                                     !.notes = notes,
                                     !.insert_calls = r.insert_calls]
                       /\ current_index' =
                             [current_index EXCEPT
                                 ![s] = IF r.saved THEN moved ELSE @]
           ELSE /\ annotations' = annotations
                /\ last' = [base EXCEPT !.outcome = "invalid_tense",
                                        !.shown = "error"]
                /\ current_index' = current_index

\* what a submit of the form changes: the table, the cursor, the messages
SubmitEffects(s, button, option, notes, insert_ok) ==
    /\ InAnnotatorInterface(s)
    /\ Truthy(filtered_data[s])
    /\ LET items == filtered_data[s].items
           current_item == IF InRange(current_index[s], items)
                           THEN items[current_index[s] + 1] ELSE NoItem
           selected_tense == SkipHeaders(option)
           base == [LastNone EXCEPT !.session = s, !.op = "submit",
                       !.button = button, !.tense = option,
                       !.item = current_item,
                       !.index_before = current_index[s],
                       !.stored_before = Len(annotations)]
           moved == IF button = "next"
                    THEN NextIndex(current_index[s], Len(items))
                    ELSE IF button = "prev"
                    THEN PrevIndex(current_index[s], Len(items))
                    ELSE current_index[s]
       IN  IF ~InRange(current_index[s], items)
           THEN \* filtered_data[current_index] raises; main() ends there
                /\ annotations' = annotations
                /\ current_index' = current_index
                /\ last' = [base EXCEPT !.outcome = "IndexError",
                                        !.shown = "exception"]
           ELSE
           /\ IF ValidTense(selected_tense)
              THEN /\ Len(annotations) < MaxStore
                   /\ LET r == save_annotation(
                                 annotations,
                                 AnnotationData(current_item.sentence,
                                                current_item.sentence_index,
                                                selected_tense,
                                                current_item.cefr,
                                                annotator_id[s],
                                                notes,
                                                current_item.text_corrected,
                                                current_item.learner_id),
                                 insert_ok)
                      IN  /\ annotations' = r.table
                          /\ last' = [base EXCEPT
                                        !.outcome = IF r.saved THEN "saved"
                                                    ELSE "store_error",
                                        !.shown = IF r.saved THEN "success"
                                                  ELSE "error",
                                        !.notes = notes,
                                        !.insert_calls = r.insert_calls]
              ELSE \* st.error("Please select a valid tense before saving.")
                   /\ annotations' = annotations
                   /\ last' = [base EXCEPT !.outcome = "invalid_tense",
                                           !.shown = "error"]
           /\ current_index' = [current_index EXCEPT ![s] = moved]

\* a submit that takes the submitted unit off the worklist
SubmitForm_DropsUnit(s, button, option, notes, insert_ok) ==
    /\ SubmitEffects(s, button, option, notes, insert_ok)
    /\ filtered_data' =
          [filtered_data EXCEPT
              ![s] = List(Without(filtered_data[s].items, current_index[s]))]
    /\ UNCHANGED <<corpus, profiles, user, user_role, annotator_id, seg>>

SubmitForm(s, button, option, notes, insert_ok) ==
    /\ SubmitEffects(s, button, option, notes, insert_ok)
    /\ UNCHANGED <<corpus, profiles, user, user_role, annotator_id, filtered_data, seg>>

(***************************************************************************)
(* Specifications.  Spec: one browser session.                             *)
(***************************************************************************)
Sessions == {"s1"}

LoginTabs == {"annotator", "admin"}

\* the levels chosen in the select box: one without rows in either corpus,
\* and the two levels of the three-row corpus
LevelChoices == {l \in Range(CEFR_LEVELS) : l \in {"A1", "A2", "B1"}}

Step(s) ==
    \/ \E tab \in LoginTabs, auth \in AuthOutcomes : Login(s, tab, auth)
    \/ Logout(s)
    \* the sample size is read only once a level is chosen and the file read
    \/ LoadData(s, "", 1, TRUE)
    \/ \E cefr_level \in LevelChoices : LoadData(s, cefr_level, 1, FALSE)
    \/ \E cefr_level \in LevelChoices, sample_size \in 1..MaxSampleSize :
            LoadData(s, cefr_level, sample_size, TRUE)
    \* the notes and the store's answer are read only for a valid tense
    \/ \E button \in Buttons, option \in Range(tense_options) :
            /\ ~ValidTense(SkipHeaders(option))
            /\ SubmitForm(s, button, option, "", TRUE)
    \/ \E button \in Buttons, option \in Range(tense_options),
          notes \in Notes, insert_ok \in BOOLEAN :
            /\ ValidTense(SkipHeaders(option))
            /\ SubmitForm(s, button, option, notes, insert_ok)

Next == \E s \in Sessions : Step(s)

Spec == Init /\ [][Next]_vars

(***************************************************************************)
(* SpecRoles: one browser session while the profiles table is edited from  *)
(* outside (the Supabase console); the annotations store is down, every    *)
(* insert raises.                                                          *)
(***************************************************************************)
\* the values the role column is given: the two roles, and another string
Roles == {"annotator", "admin", "guest"}

\* the profile row of user u is written with a role
ChangeRole(u, role) ==
    /\ Lookup(profiles, u) # role
    /\ profiles' = [x \in DOMAIN profiles \cup {u} |->
                       IF x = u THEN role ELSE profiles[x]]
    /\ last' = [LastNone EXCEPT !.op = "profile_change"]
    /\ UNCHANGED <<corpus, annotations, user, user_role, annotator_id,
                   current_index, filtered_data, seg>>

\* the profile row of user u is deleted
DeleteProfile(u) ==
    /\ u \in DOMAIN profiles
    /\ profiles' = [x \in DOMAIN profiles \ {u} |-> profiles[x]]
    /\ last' = [LastNone EXCEPT !.op = "profile_change"]
    /\ UNCHANGED <<corpus, annotations, user, user_role, annotator_id,
                   current_index, filtered_data, seg>>

StepRoles(s) ==
    \/ \E tab \in LoginTabs, auth \in AuthOutcomes : Login(s, tab, auth)
    \/ Logout(s)
    \/ LoadData(s, "", 1, TRUE)
    \/ \E cefr_level \in LevelChoices : LoadData(s, cefr_level, 1, FALSE)
    \/ \E cefr_level \in LevelChoices, sample_size \in 1..MaxSampleSize :
            LoadData(s, cefr_level, sample_size, TRUE)
    \/ \E button \in Buttons, option \in Range(tense_options) :
            /\ ~ValidTense(SkipHeaders(option))
            /\ SubmitForm(s, button, option, "", TRUE)
    \/ \E button \in Buttons, option \in Range(tense_options), notes \in Notes :
            /\ ValidTense(SkipHeaders(option))
            /\ SubmitForm(s, button, option, notes, FALSE)

\* the users whose profile row is edited
EditedUsers == {"u1", "u2"}

NextRoles ==
    \/ \E s \in Sessions : StepRoles(s)
    \/ \E u \in EditedUsers, role \in Roles : ChangeRole(u, role)
    \/ \E u \in EditedUsers : DeleteProfile(u)

SpecRoles == Init /\ [][NextRoles]_vars

(***************************************************************************)
(* SpecMulti: two browser sessions of the same annotator account, their    *)
(* runs of main() interleaved one whole run at a time; both work on the    *)
(* same corpus file and the same annotations table.                        *)
(***************************************************************************)
\* the levels loaded by the two sessions: the levels of the three-row corpus
LevelsMulti == {l \in LevelChoices : l \in {"A2", "B1"}}

StepMulti(s) ==
    \/ Login(s, "annotator", "u1")
    \/ Logout(s)
    \/ LoadData(s, "", 1, TRUE)
    \/ \E cefr_level \in LevelsMulti, read_ok \in BOOLEAN :
            LoadData(s, cefr_level, 1, read_ok)
    \/ \E button \in Buttons, option \in Range(tense_options) :
            /\ ~ValidTense(SkipHeaders(option))
            /\ SubmitForm(s, button, option, "", TRUE)
    \/ \E button \in Buttons, option \in Range(tense_options),
          insert_ok \in BOOLEAN :
            /\ ValidTense(SkipHeaders(option))
            /\ SubmitForm(s, button, option, "", insert_ok)

NextMulti == \E s \in AllSessions : StepMulti(s)

SpecMulti == Init /\ [][NextMulti]_vars

(***************************************************************************)
(* SpecSegment: one call of split_into_sentences on a text.                *)
(***************************************************************************)
\* the characters of the texts: a letter, a blank, the three terminators
Alphabet == {"a", " ", ".", "!", "?"}

Texts == UNION {[1..n -> Alphabet] : n \in 0..MaxTextLen}

InitSegment ==
    /\ corpus = <<>>
    /\ profiles = InitialProfiles
    /\ annotations = <<>>
    /\ user = [s \in AllSessions |-> None]
    /\ user_role = [s \in AllSessions |-> None]
    /\ annotator_id = [s \in AllSessions |-> None]
    /\ current_index = [s \in AllSessions |-> 0]
    /\ filtered_data = [s \in AllSessions |-> NoneList]
    /\ last = LastNone
    /\ \E t \in Texts : seg = [text |-> t, called |-> FALSE, sentences |-> <<>>]

Segment ==
    /\ ~seg.called
    /\ seg' = [text |-> seg.text, called |-> TRUE,
               sentences |-> split_into_sentences(seg.text)]
    /\ UNCHANGED <<corpus, profiles, annotations, user, user_role, annotator_id,
                   current_index, filtered_data, last>>

SpecSegment == InitSegment /\ [][Segment]_vars

(***************************************************************************)
(* The claims.                                                             *)
(***************************************************************************)
Max(a, b) == IF a > b THEN a ELSE b

\* the worklist of session s, empty when none is loaded
Worklist(s) == filtered_data[s].items

\* the last run was a form submit of session s by this button
Pressed(s, button) ==
    last.op = "submit" /\ last.session = s /\ last.button = button

\* the submitted selection is a label of the flattened taxonomy
LabelSubmitted == last.tense \in Range(TENSE_OPTIONS)

\* C1: in every reachable state, a session whose worklist is non-empty has
\* 0 <= cursor < len(worklist)
C1_CursorInRange ==
    \A s \in AllSessions :
        Len(Worklist(s)) > 0 =>
            0 <= current_index[s] /\ current_index[s] < Len(Worklist(s))

\* C1 witness: Next has just moved the cursor onto the last unit of a
\* worklist of three units
C1_Witness ==
    \E s \in AllSessions :
        /\ Pressed(s, "next")
        /\ Len(Worklist(s)) = 3
        /\ last.index_before = 1
        /\ current_index[s] = 2

\* C2: Next at index i of a worklist of length len leaves the cursor at
\* min(i+1, len-1): one step forward below the last index, no move at it
C2_NextClamps ==
    \A s \in AllSessions :
        Pressed(s, "next") =>
            /\ current_index[s] = Min(last.index_before + 1, Len(Worklist(s)) - 1)
            /\ last.index_before < Len(Worklist(s)) - 1
                   => current_index[s] = last.index_before + 1
            /\ last.index_before = Len(Worklist(s)) - 1
                   => current_index[s] = last.index_before

\* C2 witness: Next was pressed at the last index of a worklist of several
\* units and the cursor stayed
C2_Witness ==
    \E s \in AllSessions :
        /\ Pressed(s, "next")
        /\ Len(Worklist(s)) > 1
        /\ last.index_before = Len(Worklist(s)) - 1
        /\ current_index[s] = last.index_before

\* C3: Previous at index i leaves the cursor at max(i-1, 0): one step back
\* above index 0, no move at index 0
C3_PrevClamps ==
    \A s \in AllSessions :
        Pressed(s, "prev") =>
            /\ current_index[s] = Max(last.index_before - 1, 0)
            /\ current_index[s] >= 0

\* C3 witness: Previous was pressed at index 0 of a worklist of several
\* units and the cursor stayed at 0
C3_Witness ==
    \E s \in AllSessions :
        /\ Pressed(s, "prev")
        /\ Len(Worklist(s)) > 1
        /\ last.index_before = 0
        /\ current_index[s] = 0

\* C4: after a load that built a non-empty worklist the session holds that
\* worklist and its cursor is 0, wherever the cursor was before
C4_LoadResets ==
    \A s \in AllSessions :
        ( /\ last.op = "load" /\ last.session = s
          /\ last.outcome = "loaded"
          /\ Build(last.sampled.rows) # <<>> ) =>
            /\ filtered_data[s] = List(Build(last.sampled.rows))
            /\ current_index[s] = 0

\* C4 witness: a load done with the cursor of the previous worklist at 2
C4_Witness ==
    \E s \in AllSessions :
        /\ last.op = "load" /\ last.session = s
        /\ last.outcome = "loaded"
        /\ last.index_before = 2
        /\ Len(Worklist(s)) > 0

\* C5: a load whose worklist has zero units shows an error, not success,
\* and leaves the session without a worklist
C5_EmptyLoadRejected ==
    \A s \in AllSessions :
        ( /\ last.op = "load" /\ last.session = s
          /\ last.outcome \notin {"no_level", "load_error", "ValueError"}
          /\ Build(last.sampled.rows) = <<>> ) =>
            /\ last.shown = "error"
            /\ ~Truthy(filtered_data[s])

\* C6: a submit whose selection is no tense label (empty, or a category
\* header) is answered with the invalid-tense error and leaves the
\* annotations table untouched with no insert call, whatever the button
C6_InvalidTenseNoInsert ==
    [][ (last'.op = "submit" /\ last'.tense \notin Range(TENSE_OPTIONS)) =>
            /\ last'.outcome = "invalid_tense"
            /\ last'.shown = "error"
            /\ last'.insert_calls = 0
            /\ annotations' = annotations ]_vars

\* C6 witness: a category header was submitted by the Next button
C6_Witness ==
    /\ last.op = "submit" /\ last.button = "next"
    /\ last.tense = <<"------", "Simple Forms", "------">>
    /\ last.outcome = "invalid_tense"

\* C7: a submit with a tense label makes exactly one insert call; when the
\* insert fails the run shows the error, reports not saved, and the table
\* has the records it had
C7_OneInsertNoRetry ==
    (last.op = "submit" /\ LabelSubmitted) =>
        /\ last.insert_calls = 1
        /\ last.outcome \in {"saved", "store_error"}
        /\ last.outcome = "store_error" =>
              /\ last.shown = "error"
              /\ Len(annotations) = last.stored_before

\* C7 witness: an insert failed with a record already stored
C7_Witness ==
    /\ last.op = "submit" /\ LabelSubmitted
    /\ last.outcome = "store_error"
    /\ last.stored_before = 1

\* C8: the record a valid submit inserted carries the session's identity,
\* the fields of the unit that was at the cursor when the form was
\* submitted, and the submitted tense and notes
C8_RecordMatchesInputs ==
    \A s \in AllSessions :
        (last.op = "submit" /\ last.session = s /\ last.outcome = "saved") =>
            LET r == annotations[Len(annotations)]
                unit == Worklist(s)[last.index_before + 1]
            IN  /\ Len(annotations) = last.stored_before + 1
                /\ last.item = unit
                /\ r.annotator_id = user[s]
                /\ r.sentence = unit.sentence
                /\ r.cefr_level = unit.cefr
                /\ r.original_text = unit.text_corrected
                /\ r.learner_id = unit.learner_id
                /\ r.target_tense = last.tense
                /\ r.notes = last.notes

\* C8 witness: a record with notes was saved by the Next button, which then
\* moved the cursor off the unit the record is about
C8_Witness ==
    \E s \in AllSessions :
        /\ Pressed(s, "next") /\ last.outcome = "saved"
        /\ last.notes = "modal"
        /\ current_index[s] = last.index_before + 1
        /\ annotations[Len(annotations)].sentence
              # Worklist(s)[current_index[s] + 1].sentence

\* C9: every step leaves the stored records as they are, in order, adding
\* at most one at the end; a successful submit adds one even when an equal
\* record is already stored
C9_AppendOnly ==
    [][ /\ Len(annotations') >= Len(annotations)
        /\ SubSeq(annotations', 1, Len(annotations)) = annotations
        /\ Len(annotations') <= Len(annotations) + 1
        /\ (last'.op = "submit" /\ last'.outcome = "saved")
              => Len(annotations') = Len(annotations) + 1 ]_vars

\* C9 witness: two successful submits for the same unit left two equal
\* records
C9_Witness ==
    /\ Len(annotations) = 2
    /\ annotations[1] = annotations[2]
    /\ last.op = "submit" /\ last.outcome = "saved"

\* the rows of the corpus at a level
RowsAtLevel(level) == {i \in 1..Len(corpus) : corpus[i].cefr = level}

\* C10: a sample drawn at a level that has rows returns exactly
\* min(size, number of rows at the level) rows, all of that level
C10_SampleSizeClamped ==
    ( /\ last.op = "load"
      /\ last.outcome \in {"loaded", "ValueError"}
      /\ RowsAtLevel(last.sampled.level) # {} ) =>
        /\ last.sampled.ok
        /\ Len(last.sampled.rows)
              = Min(last.sampled.size, Cardinality(RowsAtLevel(last.sampled.level)))
        /\ \A i \in 1..Len(last.sampled.rows) :
              last.sampled.rows[i].cefr = last.sampled.level

\* C11: a load at a level that no row of a non-empty corpus has shows an
\* error message and leaves the session's worklist and cursor as they were
C11_EmptyLevelSurfaced ==
    [][ ( /\ last'.op = "load"
          /\ last'.outcome \in {"loaded", "ValueError"}
          /\ Len(corpus) > 0
          /\ RowsAtLevel(last'.sampled.level) = {} ) =>
            /\ last'.shown = "error"
            /\ filtered_data' = filtered_data
            /\ current_index' = current_index ]_vars

\* C11, the part the code keeps: such a load changes neither the worklist
\* nor the cursor
C11_StateKept ==
    [][ ( /\ last'.op = "load"
          /\ Len(corpus) > 0
          /\ RowsAtLevel(last'.sampled.level) = {}
          /\ last'.outcome = "ValueError" ) =>
            /\ filtered_data' = filtered_data
            /\ current_index' = current_index ]_vars

\* C12: a session leaves the login page only by a login of its own whose
\* profile lookup returned the role of the interface it enters: annotator
\* for the annotator interface, admin for the dashboard; a login whose
\* lookup returned anything else, not-found included, stays on the login
\* page
C12_RoutedByLookup ==
    [][ \A s \in AllSessions :
          /\ (Route(s) = "login" /\ Route(s)' # "login") =>
                /\ last'.op = "login" /\ last'.session = s
                /\ last'.lookup = Lookup(profiles, user'[s])
                /\ Route(s)' = "annotator" => last'.lookup = "annotator"
                /\ Route(s)' = "admin" => last'.lookup = "admin"
          /\ ( /\ last'.op = "login" /\ last'.session = s
               /\ last'.lookup \notin {"annotator", "admin"} ) =>
                Route(s)' = "login" ]_vars

\* C12 witness: a user whose profile row holds another role signed in and
\* was left on the login page
C12_Witness ==
    /\ last.op = "login"
    /\ last.lookup = "guest"
    /\ Route(last.session) = "login"

\* C13: while a session stays logged in, its role and the interface it is
\* routed to do not change, whatever is written to the profiles table
C13_RoleReadOnce ==
    [][ \A s \in AllSessions :
          (user[s] # None /\ user'[s] # None) =>
              /\ user_role'[s] = user_role[s]
              /\ user'[s] = user[s]
              /\ Route(s)' = Route(s) ]_vars

\* C13 witness: an annotator session acted after its user's profile row
\* was changed to admin
C13_Witness ==
    \E s \in AllSessions :
        /\ Route(s) = "annotator"
        /\ Lookup(profiles, user[s]) = "admin"
        /\ last.op = "load" /\ last.session = s

\* C14: right after a logout the session has no user, no role, no worklist
\* and cursor 0; it stays so while logged out, and the session a following
\* login creates starts without a worklist and with cursor 0
C14_LogoutDestroys ==
    \A s \in AllSessions :
        /\ (last.op = "logout" /\ last.session = s) =>
              /\ user[s] = None
              /\ user_role[s] = None
              /\ annotator_id[s] = None
              /\ filtered_data[s] = NoneList
              /\ current_index[s] = 0
        /\ user[s] = None =>
              filtered_data[s] = NoneList /\ current_index[s] = 0
        /\ (last.op = "login" /\ last.session = s /\ last.outcome = "logged_in") =>
              /\ user[s] # None
              /\ filtered_data[s] = NoneList
              /\ current_index[s] = 0

\* C14 witness: a logout of a session whose cursor was at 2 of its worklist
C14_Witness ==
    \E s \in AllSessions :
        /\ last.op = "logout" /\ last.session = s
        /\ last.index_before = 2
        /\ user[s] = None

\* the number of sentences of a row's text
SegCount(row) == Len(split_into_sentences(row.text_corrected))

\* the number of sentences of the rows before row i
RECURSIVE Offset(_, _)
Offset(rows, i) ==
    IF i <= 1 THEN 0 ELSE Offset(rows, i - 1) + SegCount(rows[i - 1])

\* C15: the worklist a load built holds, row after row in the order of the
\* sampled rows, one unit per sentence of the row with sentence_index
\* 0..k-1 in order; its length is the sum of the rows' sentence counts
C15_UnitsPerRow ==
    \A s \in AllSessions :
        (last.op = "load" /\ last.session = s /\ last.outcome = "loaded") =>
            LET rows == last.sampled.rows
                wl == Worklist(s)
            IN  /\ Len(wl) = Offset(rows, Len(rows) + 1)
                /\ \A i \in 1..Len(rows) :
                     \A j \in 1..SegCount(rows[i]) :
                        LET u == wl[Offset(rows, i) + j]
                        IN  /\ u.sentence_index = j - 1
                            /\ u.sentence
                                  = split_into_sentences(rows[i].text_corrected)[j]
                            /\ u.text_corrected = rows[i].text_corrected
                            /\ u.cefr = rows[i].cefr
                            /\ u.learner_id = rows[i].learner_id

\* C15 witness: a worklist built from two rows, the first of one sentence
\* and the second of two
C15_Witness ==
    \E s \in AllSessions :
        /\ last.op = "load" /\ last.session = s /\ last.outcome = "loaded"
        /\ Len(last.sampled.rows) = 2
        /\ SegCount(last.sampled.rows[1]) = 1
        /\ SegCount(last.sampled.rows[2]) = 2
        /\ Len(Worklist(s)) = 3

\* the text holds none of the characters . ! ?
NoTerminator(t) == \A i \in 1..Len(t) : t[i] \notin Terminators

AllBlank(t) == \A i \in 1..Len(t) : t[i] \in Whitespace

\* sentence is chunk without the blanks at its two ends
IsTrimOf(sentence, chunk) ==
    \E a, b \in 0..Len(chunk) :
        /\ a + b <= Len(chunk)
        /\ AllBlank(SubSeq(chunk, 1, a))
        /\ AllBlank(SubSeq(chunk, Len(chunk) - b + 1, Len(chunk)))
        /\ sentence = SubSeq(chunk, a + 1, Len(chunk) - b)
        /\ sentence # <<>> =>
              sentence[1] \notin Whitespace /\ sentence[Len(sentence)] \notin Whitespace

\* C16 as stated: every text without . ! ? gives exactly one sentence
C16_OneSentenceAnyText ==
    (seg.called /\ NoTerminator(seg.text)) => Len(seg.sentences) = 1

\* C16 amended: every non-empty text without . ! ? gives exactly one
\* sentence, the trimmed text; the empty text gives none
C16_OneSentenceNonEmpty ==
    (seg.called /\ NoTerminator(seg.text)) =>
        IF seg.text = <<>>
        THEN seg.sentences = <<>>
        ELSE /\ Len(seg.sentences) = 1
             /\ IsTrimOf(seg.sentences[1], seg.text)

\* C16 witness: a text of two letters around a blank was split
C16_Witness ==
    /\ seg.called
    /\ seg.text = <<"a", " ", "a">>
    /\ seg.sentences = << <<"a", " ", "a">> >>

\* C17: the text is cut into as many contiguous non-empty chunks as there
\* are sentences, in order and covering it, and each sentence is its chunk
\* trimmed: putting the trimmed blanks back and concatenating gives the text
C17_ChunksReconstruct ==
    seg.called =>
        LET n == Len(seg.text)
            k == Len(seg.sentences)
        IN  IF n = 0 THEN k = 0
            ELSE /\ k >= 1
                 /\ \E e \in [1..k -> 1..n] :
                       /\ e[k] = n
                       /\ \A i \in 1..(k - 1) : e[i] < e[i + 1]
                       /\ \A i \in 1..k :
                            IsTrimOf(seg.sentences[i],
                                     SubSeq(seg.text,
                                            IF i = 1 THEN 1 ELSE e[i - 1] + 1,
                                            e[i]))

\* C17 witness: a text of a sentence, a blank and an unterminated rest
C17_Witness ==
    /\ seg.called
    /\ seg.text = <<"a", ".", " ", "a">>
    /\ seg.sentences = << <<"a", ".">>, <<"a">> >>

\* C18: a run of one session leaves the worklist and the cursor of every
\* other session as they were, and a successful insert appends its record
\* to the one store all sessions share, keeping every record stored before
C18_SessionsIsolated ==
    [][/\ \A s \in AllSessions :
             last'.session # s =>
                 /\ filtered_data'[s] = filtered_data[s]
                 /\ current_index'[s] = current_index[s]
       /\ \A i \in 1..Len(annotations) :
             /\ i <= Len(annotations')
             /\ annotations'[i] = annotations[i]
       /\ (last'.op = "submit" /\ last'.outcome = "saved") =>
             /\ Len(annotations') = Len(annotations) + 1
             /\ annotations'[Len(annotations')].sentence = last'.item.sentence
             /\ annotations'[Len(annotations')].original_text
                    = last'.item.text_corrected
             /\ annotations'[Len(annotations')].annotator_id
                    = annotator_id[last'.session]]_vars

\* C18 witness: both sessions hold a worklist, not the same one, at
\* different cursors, and the store holds a record of each session's unit,
\* the second just inserted by s2
C18_Witness ==
    /\ Truthy(filtered_data["s1"]) /\ Truthy(filtered_data["s2"])
    /\ filtered_data["s1"] # filtered_data["s2"]
    /\ current_index["s1"] = 1 /\ current_index["s2"] = 0
    /\ last.session = "s2" /\ last.op = "submit" /\ last.outcome = "saved"
    /\ Len(annotations) = 2
    /\ annotations[1].sentence = Worklist("s1")[1].sentence
    /\ annotations[2].sentence = Worklist("s2")[1].sentence

\* C19: the form that reads the current unit and offers Previous, Save and
\* Next is run only by a session that holds a non-empty worklist with its
\* cursor inside it: the read of the current unit never fails
C19_FormOnlyWhenLoaded ==
    [][last'.op = "submit" =>
          \E s \in AllSessions :
              /\ last'.session = s
              /\ ~filtered_data[s].is_none
              /\ Len(filtered_data[s].items) > 0
              /\ InRange(current_index[s], filtered_data[s].items)
              /\ last'.item = filtered_data[s].items[current_index[s] + 1]
              /\ last'.outcome # "IndexError"]_vars

\* C19 witness: the form was submitted on the second unit of a worklist
C19_Witness ==
    \E s \in AllSessions :
        /\ last.op = "submit" /\ last.session = s
        /\ last.index_before = 1
        /\ Len(Worklist(s)) = 2
        /\ last.item = Worklist(s)[2]

\* C20: a submit by Previous, Save or Next leaves the worklist, the
\* identity and the role as they were; the worklist of a session changes
\* only in a load or a logout of that session
C20_WorklistFixed ==
    [][/\ last'.op = "submit" =>
             /\ filtered_data' = filtered_data
             /\ user' = user
             /\ user_role' = user_role
             /\ annotator_id' = annotator_id
       /\ \A s \in AllSessions :
             filtered_data'[s] # filtered_data[s] =>
                 /\ last'.session = s
                 /\ \/ last'.op = "logout"
                    \/ last'.op = "load" /\ last'.outcome = "loaded"]_vars

\* C20 witness: Next saved a record and moved the cursor to the second
\* unit of the worklist of an annotator
C20_Witness ==
    \E s \in AllSessions :
        /\ Pressed(s, "next") /\ last.outcome = "saved"
        /\ last.index_before = 0 /\ current_index[s] = 1
        /\ Len(Worklist(s)) = 2
        /\ user[s] = "u1" /\ user_role[s] = "annotator"

\* C21: a submit by Next or Previous with a label selected makes one insert
\* attempt, for the unit that was at the cursor when the button was
\* pressed, and then moves the cursor one step within the worklist whether
\* the insert returned or raised; with no label selected it makes no insert
\* and moves the cursor all the same
C21_MoveAfterInsertAttempt ==
    [][\A s \in AllSessions :
          (/\ last'.op = "submit" /\ last'.session = s
           /\ last'.button \in {"next", "prev"}) =>
              LET i == current_index[s]
                  items == filtered_data[s].items
                  n == Len(items)
                  label == last'.tense \in Range(TENSE_OPTIONS)
              IN  /\ label =>
                        /\ last'.insert_calls = 1
                        /\ last'.item = items[i + 1]
                        /\ \/ /\ last'.outcome = "saved"
                              /\ Len(annotations') = Len(annotations) + 1
                              /\ annotations'[Len(annotations')].sentence
                                     = items[i + 1].sentence
                              /\ annotations'[Len(annotations')].original_text
                                     = items[i + 1].text_corrected
                           \/ /\ last'.outcome = "store_error"
                              /\ annotations' = annotations
                  /\ ~label =>
                        /\ last'.insert_calls = 0
                        /\ last'.outcome = "invalid_tense"
                        /\ annotations' = annotations
                  /\ current_index'[s] =
                        IF last'.button = "next"
                        THEN (IF i < n - 1 THEN i + 1 ELSE i)
                        ELSE (IF i > 0 THEN i - 1 ELSE i)
                  /\ 0 <= current_index'[s] /\ current_index'[s] < n]_vars

\* C21 witness: Next was pressed with a label on the first of two units,
\* the insert raised, and the cursor is on the second unit
C21_Witness ==
    \E s \in AllSessions :
        /\ Pressed(s, "next") /\ LabelSubmitted
        /\ last.outcome = "store_error" /\ last.insert_calls = 1
        /\ Len(Worklist(s)) = 2
        /\ last.index_before = 0 /\ current_index[s] = 1

\* C22: a press of Load Data that ends at the missing level or at the
\* unreadable corpus file shows an error and leaves the worklist and the
\* cursor of the session, and of every other, exactly as they were
C22_FailedLoadKeepsPosition ==
    [][(last'.op = "load" /\ last'.outcome \in {"no_level", "load_error"}) =>
          /\ last'.shown = "error"
          /\ filtered_data' = filtered_data
          /\ current_index' = current_index]_vars

\* C22 witness: the corpus file could not be read while the session stood
\* on the second unit of its worklist, and it still stands there
C22_Witness ==
    \E s \in AllSessions :
        /\ last.op = "load" /\ last.session = s
        /\ last.outcome = "load_error"
        /\ Len(Worklist(s)) = 2
        /\ last.index_before = 1 /\ current_index[s] = 1

=============================================================================
